---------------------------- MODULE Spec2Model ----------------------------
(***************************************************************************)
(* A model of mhc-infra-observability: the tracing initialisation          *)
(* (tracing.Init, Tracer), the HTTP middleware, the span helpers, the      *)
(* trace-context propagation carriers, the trace-aware logger and the      *)
(* configuration loader.                                                   *)
(*                                                                         *)
(* The snapshot holds two revisions of tracing/init.go: Init(ctx, cfg),    *)
(* which the facade observability.Init calls, and Init(ctx, res, cfg),     *)
(* which comes with Tracer() and defaultTracer.  A process links exactly   *)
(* one of them; tracingRev says which.                                     *)
(***************************************************************************)
EXTENDS Integers, Sequences, FiniteSets, TLC

VARIABLES
    tracingRev,     \* "legacy": Init(ctx, cfg); "current": Init(ctx, res, cfg)
    globalTP,       \* otel global tracer provider: 0 until SetTracerProvider
    globalProp,     \* otel global propagator registered (SetTextMapPropagator)
    defaultTracer,  \* tracing.defaultTracer: 0 (nil) or the provider it came from
    providers,      \* tracer providers created, by id: [res, conn, shutdown]
    conns,          \* gRPC client connections dialled, by id: "open" | "closed"
    resources,      \* Resources constructed, in order: [origin, version]
    init,           \* the frame of the Init call in progress
    initRet,        \* what the last Init call returned and what it found on entry
    spans,          \* spans started, by id
    call,           \* the frame of the middleware / helper call in progress
    tracerRet,      \* what the last Tracer() call returned
    prop,           \* propagation: the inputs and results of an inject/extract
    logst,          \* logging: the logger, the call and the lines emitted
    conf,           \* config: the environment and the Config loaded from it
    metrics         \* package metrics: meter, the SetMeter calls, the NewCounter frame

traceVars == <<tracingRev, globalTP, globalProp, defaultTracer, providers, conns,
               resources, init, initRet, spans, call, tracerRet>>
vars == <<tracingRev, globalTP, globalProp, defaultTracer, providers, conns,
          resources, init, initRet, spans, call, tracerRet,
          prop, logst, conf, metrics>>

-----------------------------------------------------------------------------
(* Bounds of the model *)

MaxInits == 2
MaxSpans == 2
MaxWriteHeaderCalls == 2
MaxNewResources == 1
MaxSpanEvents == 1
MaxErrorLines == 1
MaxSetMeters == 3

-----------------------------------------------------------------------------
(* Trace and span identifiers, span contexts, contexts *)

\* The hex widths of a W3C trace ID (16 bytes) and span ID (8 bytes).
TraceIDHexLen == 32
SpanIDHexLen == 16

HexDigits == <<"0", "1", "2", "3", "4", "5", "6", "7",
               "8", "9", "a", "b", "c", "d", "e", "f">>

\* An ID is the number its bytes spell (big-endian); the zero ID is not valid.
NilTraceID == 0
NilSpanID == 0
IDIsValid(id) == id # 0

\* trace.SpanContext: the zero value is NoSC.
SpanContext(tid, sid, sampled, remote) ==
    [tid |-> tid, sid |-> sid, sampled |-> sampled, remote |-> remote]
NoSC == SpanContext(NilTraceID, NilSpanID, FALSE, FALSE)
SCIsValid(sc) == IDIsValid(sc.tid) /\ IDIsValid(sc.sid)

\* A context.Context, as far as tracing reads it: the span it holds (0: none,
\* or a non-recording wrapper of a remote span context) and that span's context.
Ctx(span, sc) == [span |-> span, sc |-> sc]
Background == Ctx(0, NoSC)
ContextWithRemoteSpanContext(ctx, sc) ==
    Ctx(0, SpanContext(sc.tid, sc.sid, sc.sampled, TRUE))

-----------------------------------------------------------------------------
(* propagation.TraceContext: the traceparent header *)

\* TraceID.String / SpanID.String: the ID in lower-case hex, zero-padded to
\* its width.
RECURSIVE HexString(_, _)
HexString(id, width) ==
    IF width = 0 THEN <<>>
    ELSE Append(HexString(id \div 16, width - 1), HexDigits[(id % 16) + 1])

IsHexChar(c) == \E i \in 1..16 : HexDigits[i] = c
HexValue(c) == CHOOSE i \in 0..15 : HexDigits[i + 1] = c
IsHexText(s) == \A i \in 1..Len(s) : IsHexChar(s[i])
\* hex.DecodeString / TraceIDFromHex on text already known to be hex.
RECURSIVE HexDecode(_)
HexDecode(s) ==
    IF s = <<>> THEN 0
    ELSE HexDecode(SubSeq(s, 1, Len(s) - 1)) * 16 + HexValue(s[Len(s)])

TraceparentLen == 2 + 1 + TraceIDHexLen + 1 + SpanIDHexLen + 1 + 2

\* "%.2x-%s-%s-%s" of version 0, the trace ID, the span ID, flags & sampled.
FormatTraceparent(sc) ==
    <<"0", "0", "-">> \o HexString(sc.tid, TraceIDHexLen)
        \o <<"-">> \o HexString(sc.sid, SpanIDHexLen)
        \o <<"-", "0", IF sc.sampled THEN "1" ELSE "0">>

\* TraceContext.extract on the header's text: the regular expression
\* ^[0-9a-f]{2}-[a-f0-9]{32}-[a-f0-9]{16}-[a-f0-9]{2}(-.*)?$, version below ff,
\* flags at most 2 for version 0, then SpanContext.IsValid.
ParseTraceparent(h) ==
    LET verT == SubSeq(h, 1, 2)
        tidT == SubSeq(h, 4, 3 + TraceIDHexLen)
        sidT == SubSeq(h, 5 + TraceIDHexLen, 4 + TraceIDHexLen + SpanIDHexLen)
        flgT == SubSeq(h, TraceparentLen - 1, TraceparentLen)
        shaped == /\ Len(h) >= TraceparentLen
                  /\ h[3] = "-"
                  /\ h[4 + TraceIDHexLen] = "-"
                  /\ h[TraceparentLen - 2] = "-"
                  /\ Len(h) > TraceparentLen => h[TraceparentLen + 1] = "-"
                  /\ IsHexText(verT) /\ IsHexText(tidT)
                  /\ IsHexText(sidT) /\ IsHexText(flgT)
    IN  IF ~shaped THEN NoSC
        ELSE LET ver == HexDecode(verT)
                 flags == HexDecode(flgT)
                 sc == SpanContext(HexDecode(tidT), HexDecode(sidT),
                                   flags % 2 = 1, TRUE)
             IN  IF ver = 255 THEN NoSC
                 ELSE IF ver = 0 /\ flags > 2 THEN NoSC
                 ELSE IF ~SCIsValid(sc) THEN NoSC
                 ELSE sc


\* TraceContext.Inject into a carrier with the given Set: nothing is written for
\* a context whose span context is not valid.  (tracestate and baggage, written
\* under their own keys, are left out: no trace or span ID is read from them.)
\* TraceContext.Extract: the context is returned as it is when the header does
\* not parse to a valid span context.
TraceparentHeader == "traceparent"

-----------------------------------------------------------------------------
(* Carriers: http.Header, metadata.MD, map[string]string *)

EmptyMap == <<>>
MapHas(m, k) == k \in DOMAIN m
MapPut(m, k, v) == [x \in (DOMAIN m) \cup {k} |-> IF x = k THEN v ELSE m[x]]

\* textproto.CanonicalMIMEHeaderKey and strings.ToLower on the keys that occur.
CanonicalMIMEHeaderKey(k) ==
    CASE k \in {"traceparent", "Traceparent", "TRACEPARENT"} -> "Traceparent"
      [] k \in {"x-request-id", "X-Request-Id"} -> "X-Request-Id"
      [] OTHER -> k
ToLower(k) ==
    CASE k \in {"traceparent", "Traceparent", "TRACEPARENT"} -> "traceparent"
      [] k \in {"x-request-id", "X-Request-Id"} -> "x-request-id"
      [] OTHER -> k

\* HTTPHeaderCarrier over http.Header (canonical key -> values).
HTTPGet(header, key) ==
    LET k == CanonicalMIMEHeaderKey(key)
    IN  IF MapHas(header, k) /\ Len(header[k]) > 0 THEN header[k][1] ELSE <<>>
\* (Header.Add, which appends to the values under the key, is HTTPAdd.)
HTTPAdd(header, key, value) ==
    LET k == CanonicalMIMEHeaderKey(key)
    IN  MapPut(header, k, (IF MapHas(header, k) THEN header[k] ELSE <<>>) \o <<value>>)
HTTPSet(header, key, value) == MapPut(header, CanonicalMIMEHeaderKey(key), <<value>>)

\* grpcMetadataCarrier over metadata.MD (lower-case key -> values); a nil MD
\* reads as empty.
NilMD == [nil |-> TRUE, m |-> EmptyMap]
MD(m) == [nil |-> FALSE, m |-> m]
GrpcGet(md, key) ==
    LET k == ToLower(key)
    IN  IF MapHas(md.m, k) /\ Len(md.m[k]) > 0 THEN md.m[k][1] ELSE <<>>
GrpcSet(md, key, value) == MD(MapPut(md.m, ToLower(key), <<value>>))

\* KafkaHeaderCarrier over map[string]string: keys are used as they are.
KafkaGet(headers, key) == IF MapHas(headers.m, key) THEN headers.m[key] ELSE <<>>
KafkaSet(headers, key, value) == MD(MapPut(headers.m, key, value))

-----------------------------------------------------------------------------
(* propagation: Extract* and Inject* *)

ExtractFrom(ctx, text) ==
    LET sc == IF text = <<>> THEN NoSC ELSE ParseTraceparent(text)
    IN  IF SCIsValid(sc) THEN ContextWithRemoteSpanContext(ctx, sc) ELSE ctx

ExtractHTTP(ctx, header) == ExtractFrom(ctx, HTTPGet(header, TraceparentHeader))

InjectHTTP(ctx, header) ==
    IF SCIsValid(ctx.sc)
    THEN HTTPSet(header, TraceparentHeader, FormatTraceparent(ctx.sc))
    ELSE header

ExtractGrpc(ctx, md) == ExtractFrom(ctx, GrpcGet(md, TraceparentHeader))

InjectGrpc(ctx, md) ==
    LET md1 == IF md.nil THEN MD(EmptyMap) ELSE md
    IN  IF SCIsValid(ctx.sc)
        THEN GrpcSet(md1, TraceparentHeader, FormatTraceparent(ctx.sc))
        ELSE md1

\* The caller's md after InjectGrpc(ctx, md): metadata.MD is a map, the carrier
\* holds the caller's map itself and Set stores into it, so a non-nil md has
\* the content of the returned one; a nil md stays nil.
CallerMDAfterInjectGrpc(ctx, md) == IF md.nil THEN md ELSE InjectGrpc(ctx, md)

ExtractKafka(ctx, headers) ==
    IF headers.nil THEN ctx
    ELSE ExtractFrom(ctx, KafkaGet(headers, TraceparentHeader))

InjectKafka(ctx) ==
    LET headers == MD(EmptyMap)
    IN  IF SCIsValid(ctx.sc)
        THEN KafkaSet(headers, TraceparentHeader, FormatTraceparent(ctx.sc))
        ELSE headers

-----------------------------------------------------------------------------
(* Inputs the propagation helpers are exercised on *)

SampledSC == SpanContext(1, 2, TRUE, FALSE)
UnsampledSC == SpanContext(175, 2816, FALSE, FALSE)
RemoteSC == SpanContext(3, 4, TRUE, TRUE)
NoSpanIDSC == SpanContext(1, NilSpanID, TRUE, FALSE)
NoTraceIDSC == SpanContext(NilTraceID, 2, TRUE, FALSE)
SampleSCs == {NoSC, SampledSC, UnsampledSC, RemoteSC, NoSpanIDSC, NoTraceIDSC}

\* What a carrier may hold before the call: a traceparent of another trace
\* (a forwarded or reused header), text that is no traceparent, another key.
StaleSC == SpanContext(7, 7, TRUE, TRUE)
StaleText == FormatTraceparent(StaleSC)
GarbageText == <<"x", "y">>
RequestIDText == <<"r", "1">>

SampleHeaders ==
    { EmptyMap,
      MapPut(EmptyMap, "Traceparent", <<StaleText>>),
      MapPut(EmptyMap, "Traceparent", <<GarbageText, StaleText>>),
      MapPut(EmptyMap, "X-Request-Id", <<RequestIDText>>) }
SampleMDs ==
    { NilMD, MD(EmptyMap),
      MD(MapPut(EmptyMap, "traceparent", <<StaleText>>)),
      MD(MapPut(EmptyMap, "traceparent", <<GarbageText, StaleText>>)),
      MD(MapPut(EmptyMap, "x-request-id", <<RequestIDText>>)) }

-----------------------------------------------------------------------------
(* Propagation round trips: inject from ctx into a carrier, then extract from
   that carrier into a context that holds no span *)

\* before: the carrier as the caller built it; carrier: what the injection
\* returned (HTTP: the header after it); callerMD: the caller's own carrier
\* value after the call.
PropInput(transport, sc, carrier) ==
    [pc |-> "input", transport |-> transport, ctx |-> Ctx(0, sc),
     before |-> carrier, carrier |-> carrier, out |-> Background,
     callerMD |-> carrier]
PropIdle == PropInput("none", NoSC, EmptyMap)

PropInit ==
    prop \in { PropInput("http", sc, h) : sc \in SampleSCs, h \in SampleHeaders }
        \cup { PropInput("grpc", sc, md) : sc \in SampleSCs, md \in SampleMDs }
        \cup { PropInput("kafka", sc, NilMD) : sc \in SampleSCs }

InjectHTTPCall ==
    /\ prop.pc = "input" /\ prop.transport = "http"
    /\ prop' = [prop EXCEPT !.pc = "injected",
                            !.carrier = InjectHTTP(prop.ctx, prop.carrier),
                            !.callerMD = InjectHTTP(prop.ctx, prop.carrier)]
    /\ UNCHANGED <<traceVars, logst, conf, metrics>>

ExtractHTTPCall ==
    /\ prop.pc = "injected" /\ prop.transport = "http"
    /\ prop' = [prop EXCEPT !.pc = "extracted",
                            !.out = ExtractHTTP(Background, prop.carrier)]
    /\ UNCHANGED <<traceVars, logst, conf, metrics>>

InjectGrpcCall ==
    /\ prop.pc = "input" /\ prop.transport = "grpc"
    /\ prop' = [prop EXCEPT !.pc = "injected",
                            !.carrier = InjectGrpc(prop.ctx, prop.carrier),
                            !.callerMD = CallerMDAfterInjectGrpc(prop.ctx, prop.carrier)]
    /\ UNCHANGED <<traceVars, logst, conf, metrics>>

ExtractGrpcCall ==
    /\ prop.pc = "injected" /\ prop.transport = "grpc"
    /\ prop' = [prop EXCEPT !.pc = "extracted",
                            !.out = ExtractGrpc(Background, prop.carrier)]
    /\ UNCHANGED <<traceVars, logst, conf, metrics>>

InjectKafkaCall ==
    /\ prop.pc = "input" /\ prop.transport = "kafka"
    /\ prop' = [prop EXCEPT !.pc = "injected",
                            !.carrier = InjectKafka(prop.ctx)]
    /\ UNCHANGED <<traceVars, logst, conf, metrics>>

ExtractKafkaCall ==
    /\ prop.pc = "injected" /\ prop.transport = "kafka"
    /\ prop' = [prop EXCEPT !.pc = "extracted",
                            !.out = ExtractKafka(Background, prop.carrier)]
    /\ UNCHANGED <<traceVars, logst, conf, metrics>>

PropNext ==
    \/ InjectHTTPCall \/ ExtractHTTPCall
    \/ InjectGrpcCall \/ ExtractGrpcCall
    \/ InjectKafkaCall \/ ExtractKafkaCall

-----------------------------------------------------------------------------
(* The otel global API and the SDK's tracers *)

\* otel.Tracer(name): the registered provider's tracer, or, before any
\* SetTracerProvider, a tracer of the global delegating provider.
OtelTracer(gtp) ==
    IF gtp = 0 THEN [kind |-> "delegating", tp |-> 0] ELSE [kind |-> "sdk", tp |-> gtp]
NoopTracer == [kind |-> "noop", tp |-> 0]

\* IDs the SDK's generator gives the n-th span started.
NewTraceID(n) == 128 + n
NewSpanID(n) == 144 + n

\* tracer.Start(ctx, ...) for the n-th span.  An SDK tracer continues a valid
\* parent's trace with the parent's sampling decision (ParentBased) and starts
\* a sampled root trace otherwise; after its provider's Shutdown, and for the
\* delegating tracer before a provider is registered, the span is a
\* non-recording one that carries the parent's span context.
TracerStart(tracer, ctx, n, op, provs) ==
    LET live == tracer.kind = "sdk" /\ ~provs[tracer.tp].shutdown
        parent == ctx.sc
        sc == IF ~live THEN parent
              ELSE IF SCIsValid(parent)
                   THEN SpanContext(parent.tid, NewSpanID(n), parent.sampled, FALSE)
                   ELSE SpanContext(NewTraceID(n), NewSpanID(n), TRUE, FALSE)
    IN  [op |-> op, tracer |-> tracer, parent |-> parent, sc |-> sc,
         recording |-> live /\ sc.sampled,
         ended |-> 0, attrs |-> EmptyMap, status |-> "Unset",
         desc |-> "", events |-> <<>>]

\* span.SetAttributes / SetStatus / End: a non-recording span ignores them,
\* and a span that has ended ignores SetAttributes and SetStatus.
SpanSetAttribute(sp, key, value) ==
    IF sp.recording /\ sp.ended = 0
    THEN [sp EXCEPT !.attrs = MapPut(sp.attrs, key, value)] ELSE sp
SpanSetStatus(sp, st) ==
    IF sp.recording /\ sp.ended = 0 THEN [sp EXCEPT !.status = st] ELSE sp
SpanEnd(sp) == [sp EXCEPT !.ended = @ + 1]

\* span.SetStatus(code, description) and span.RecordError(err), which adds an
\* exception event: ignored like SetAttributes by a span that is not recording
\* or has ended.
SpanSetStatusDescUnchecked(sp, st, desc) == [sp EXCEPT !.status = st, !.desc = desc]
SpanSetStatusDesc(sp, st, desc) ==
    IF sp.recording /\ sp.ended = 0 THEN [sp EXCEPT !.status = st, !.desc = desc] ELSE sp
SpanRecordError(sp, msg) ==
    IF sp.recording /\ sp.ended = 0
    THEN [sp EXCEPT !.events = Append(@, <<"exception", msg>>)] ELSE sp

-----------------------------------------------------------------------------
(* observability.NewResource *)

\* config.Config as NewResource reads it: ServiceVersion may be empty.
ServiceVersions == {"", "1.2.0"}

ResourceAttrs(version) ==
    {"service.name", "deployment.environment"}
        \cup (IF version # "" THEN {"service.version"} ELSE {})

NewResource ==
    /\ Cardinality({i \in 1..Len(resources) : resources[i].origin = "NewResource"})
           < MaxNewResources
    /\ \E version \in ServiceVersions :
          resources' = Append(resources,
              [origin |-> "NewResource", attrs |-> ResourceAttrs(version)])
    /\ UNCHANGED <<tracingRev, globalTP, globalProp, defaultTracer, providers, conns,
                   init, initRet, spans, call, tracerRet, prop, logst, conf, metrics>>

-----------------------------------------------------------------------------
(* tracing.Init, in both revisions, and the facade observability.Init *)

\* The order of Init(ctx, res, cfg): create the provider with the resource,
\* SetTracerProvider, SetTextMapPropagator, then obtain and store the tracer.
InitOrderTracerFirst ==
    <<"dial", "exporter", "provider", "storeTracer", "setTP", "setProp", "return">>
InitOrder ==
    <<"dial", "exporter", "provider", "setTP", "setProp", "storeTracer", "return">>
\* The order of Init(ctx, cfg), which builds its own resource and stores no tracer.
InitOrderLegacy ==
    <<"dial", "exporter", "resource", "provider", "setTP", "setProp", "return">>

OrderOf(rev) == IF rev = "current" THEN InitOrder ELSE InitOrderLegacy
InitNextPc(rev, pc) ==
    LET order == OrderOf(rev)
        i == CHOOSE j \in 1..Len(order) : order[j] = pc
    IN  order[i + 1]

NoEntry == [tp |-> 0, prop |-> FALSE, tracer |-> 0]
IdleInit == [pc |-> "idle", res |-> 0, conn |-> 0, exporter |-> "none", tp |-> 0,
             entry |-> NoEntry]
\* okTP: the provider of the latest Init call that succeeded (0: none yet).
NoInitRet == [calls |-> 0, shutdown |-> 0, err |-> <<>>, conn |-> 0, okTP |-> 0,
              entry |-> NoEntry]

\* conn.Close()
LeakConn(cs, c) == cs
CloseConn(cs, c) == [cs EXCEPT ![c] = "closed"]

\* What the caller of Init gets: the facade observability.Init, which is what
\* calls Init(ctx, cfg), returns a nil shutdown and the wrapped error on failure.
InitResult(rev, shutdown, err) ==
    IF rev = "legacy" /\ err # <<>>
    THEN [shutdown |-> 0, err |-> <<"init tracing">> \o err]
    ELSE [shutdown |-> shutdown, err |-> err]

\* return from Init with (shutdown, err)
InitReturns(shutdown, err) ==
    LET r == InitResult(tracingRev, shutdown, err)
    IN  /\ initRet' = [calls |-> initRet.calls + 1, shutdown |-> r.shutdown,
                       err |-> r.err, conn |-> init.conn, entry |-> init.entry,
                       okTP |-> IF err = <<>> THEN shutdown ELSE initRet.okTP]
        /\ init' = IdleInit

\* Init is called: with the Resource the caller holds (current revision), or
\* through the facade with the configuration alone (legacy revision).
InitCall ==
    /\ init.pc = "idle"
    /\ initRet.calls < MaxInits
    /\ \E res \in 0..Len(resources) :
          /\ (tracingRev = "current") => res # 0
          /\ (tracingRev = "legacy") => res = 0
          /\ init' = [IdleInit EXCEPT
                        !.pc = OrderOf(tracingRev)[1], !.res = res,
                        !.entry = [tp |-> globalTP, prop |-> globalProp,
                                   tracer |-> defaultTracer]]
    /\ UNCHANGED <<tracingRev, globalTP, globalProp, defaultTracer, providers, conns,
                   resources, initRet, spans, call, tracerRet, prop, logst, conf, metrics>>

\* grpc.DialContext
InitDial ==
    /\ init.pc = "dial"
    /\ \/ /\ conns' = Append(conns, "open")
          /\ init' = [init EXCEPT !.pc = InitNextPc(tracingRev, "dial"),
                                  !.conn = Len(conns) + 1]
          /\ UNCHANGED initRet
       \/ /\ InitReturns(0, <<"create OTLP gRPC connection">>)
          /\ UNCHANGED conns
    /\ UNCHANGED <<tracingRev, globalTP, globalProp, defaultTracer, providers,
                   resources, spans, call, tracerRet, prop, logst, conf, metrics>>

\* otlptracegrpc.New over the connection; the connection is closed on failure
InitExporter ==
    /\ init.pc = "exporter"
    /\ \/ /\ init' = [init EXCEPT !.pc = InitNextPc(tracingRev, "exporter"),
                                  !.exporter = "running"]
          /\ UNCHANGED <<conns, initRet>>
       \/ /\ conns' = CloseConn(conns, init.conn)
          /\ InitReturns(0, <<"create OTLP trace exporter">>)
    /\ UNCHANGED <<tracingRev, globalTP, globalProp, defaultTracer, providers,
                   resources, spans, call, tracerRet, prop, logst, conf, metrics>>

\* Init(ctx, cfg) only: resource.Merge(resource.Default(), NewWithAttributes(..)).
\* resource.Default() is built once per process.  On a Merge error the exporter
\* is shut down (which leaves a connection it was given open).
InitResource ==
    /\ init.pc = "resource"
    /\ LET hasDefault == \E i \in 1..Len(resources) : resources[i].origin = "Default"
           dflt == IF hasDefault THEN <<>>
                   ELSE <<[origin |-> "Default",
                           attrs |-> {"service.name", "telemetry.sdk"}]>>
           own == <<[origin |-> "NewWithAttributes",
                     attrs |-> {"service.name", "deployment.environment"}]>>
           merged == <<[origin |-> "Merge",
                        attrs |-> {"service.name", "deployment.environment",
                                   "telemetry.sdk"}]>>
       IN  \/ /\ resources' = resources \o dflt \o own \o merged
              /\ init' = [init EXCEPT !.pc = InitNextPc(tracingRev, "resource"),
                                      !.res = Len(resources')]
              /\ UNCHANGED initRet
           \/ /\ resources' = resources \o dflt \o own
              /\ InitReturns(0, <<"create resource">>)
    /\ UNCHANGED <<tracingRev, globalTP, globalProp, defaultTracer, providers, conns,
                   spans, call, tracerRet, prop, logst, conf, metrics>>

\* sdktrace.NewTracerProvider(WithBatcher(exporter), WithResource(res))
InitProvider ==
    /\ init.pc = "provider"
    /\ providers' = Append(providers,
           [res |-> init.res, conn |-> init.conn, shutdown |-> FALSE,
            shutdownRet |-> "none"])
    /\ init' = [init EXCEPT !.pc = InitNextPc(tracingRev, "provider"),
                            !.tp = Len(providers) + 1]
    /\ UNCHANGED <<tracingRev, globalTP, globalProp, defaultTracer, conns, resources,
                   initRet, spans, call, tracerRet, prop, logst, conf, metrics>>

\* otel.SetTracerProvider(tp)
InitSetTracerProvider ==
    /\ init.pc = "setTP"
    /\ globalTP' = init.tp
    /\ init' = [init EXCEPT !.pc = InitNextPc(tracingRev, "setTP")]
    /\ UNCHANGED <<tracingRev, globalProp, defaultTracer, providers, conns, resources,
                   initRet, spans, call, tracerRet, prop, logst, conf, metrics>>

\* otel.SetTextMapPropagator(TraceContext + Baggage)
InitSetPropagator ==
    /\ init.pc = "setProp"
    /\ globalProp' = TRUE
    /\ init' = [init EXCEPT !.pc = InitNextPc(tracingRev, "setProp")]
    /\ UNCHANGED <<tracingRev, globalTP, defaultTracer, providers, conns, resources,
                   initRet, spans, call, tracerRet, prop, logst, conf, metrics>>

\* Init(ctx, res, cfg) only: defaultTracer = tp.Tracer(tracerName), under mu
InitStoreTracer ==
    /\ init.pc = "storeTracer"
    /\ defaultTracer' = init.tp
    /\ init' = [init EXCEPT !.pc = InitNextPc(tracingRev, "storeTracer")]
    /\ UNCHANGED <<tracingRev, globalTP, globalProp, providers, conns, resources,
                   initRet, spans, call, tracerRet, prop, logst, conf, metrics>>

\* return shutdown, nil: the closure shuts down the provider this call created
InitReturn ==
    /\ init.pc = "return"
    /\ InitReturns(init.tp, <<>>)
    /\ UNCHANGED <<tracingRev, globalTP, globalProp, defaultTracer, providers, conns,
                   resources, spans, call, tracerRet, prop, logst, conf, metrics>>

-----------------------------------------------------------------------------
(* The shutdown function that Init returns *)

\* What tp.Shutdown does to the connections: the exporter was given the
\* connection with WithGRPCConn, and an exporter closes on shutdown only a
\* connection it dialled itself.
ExporterShutdown(cs, c) == cs

\* What tp.Shutdown(ctx) may return: nil, or the error of a flush that failed
\* or ran out of time; once shut down it returns nil at once.
ShutdownErrors(tp) ==
    IF tp.shutdown THEN {""} ELSE {"", "context deadline exceeded"}

\* The shutdown function returned for provider p is called: tp.Shutdown(ctx),
\* its error wrapped.  It is held by a caller only once its Init has returned.
ShutdownCall ==
    /\ \E p \in 1..Len(providers) :
          /\ ~(init.pc # "idle" /\ init.tp = p)
          /\ \E err \in ShutdownErrors(providers[p]) :
                /\ providers' = [providers EXCEPT
                                   ![p].shutdown = TRUE,
                                   ![p].shutdownRet = IF err = "" THEN "nil" ELSE "error"]
                /\ conns' = ExporterShutdown(conns, providers[p].conn)
    /\ UNCHANGED <<tracingRev, globalTP, globalProp, defaultTracer, resources, init,
                   initRet, spans, call, tracerRet, prop, logst, conf, metrics>>

-----------------------------------------------------------------------------
(* tracing.Tracer *)

\* Tracer(): the stored tracer, or a noop tracer while none is stored.  The
\* result names the tracer and the otel global calls made to obtain it.
TracerViaGlobal(dt, gtp) ==
    IF dt # 0 THEN [tracer |-> [kind |-> "sdk", tp |-> dt], global |-> {}]
    ELSE [tracer |-> OtelTracer(gtp), global |-> {"otel.Tracer"}]
Tracer(dt, gtp) ==
    IF dt # 0 THEN [tracer |-> [kind |-> "sdk", tp |-> dt], global |-> {}]
    ELSE [tracer |-> NoopTracer, global |-> {}]

\* The provider of the latest Init call whose success is settled: one that has
\* returned a nil error, or the one in progress once it is past its last store
\* and has only to return.
SucceededTP == IF init.pc = "return" THEN init.tp ELSE initRet.okTP

\* tracerRet keeps the result with SucceededTP as it was at the call.
NoTracerRet == [called |-> FALSE, tracer |-> NoopTracer, global |-> {}, okTP |-> 0]

TracerCall ==
    /\ tracingRev = "current"
    /\ LET r == Tracer(defaultTracer, globalTP)
       IN  tracerRet' = [called |-> TRUE, tracer |-> r.tracer, global |-> r.global,
                         okTP |-> SucceededTP]
    /\ UNCHANGED <<tracingRev, globalTP, globalProp, defaultTracer, providers, conns,
                   resources, init, initRet, spans, call, prop, logst, conf, metrics>>

-----------------------------------------------------------------------------
(* tracing.Middleware: the handler that HTTPMiddleware returns *)

\* Request headers as net/http delivers them (canonical keys).
UnsampledParentSC == SpanContext(5, 6, FALSE, TRUE)
RequestHeaders ==
    { EmptyMap,
      MapPut(EmptyMap, "Traceparent", <<StaleText>>),
      MapPut(EmptyMap, "Traceparent", <<GarbageText, StaleText>>),
      MapPut(EmptyMap, "Traceparent", <<FormatTraceparent(UnsampledParentSC)>>) }

\* Status codes a handler may pass to WriteHeader.
StatusCodes == {200, 399, 400, 500}

\* http.StatusOK, the wrapped writer's status until WriteHeader is called
StatusOK == 200

\* wrapped.statusCode >= 400
StatusIsErrorAbove(code) == code > 400
StatusIsError(code) == code >= 400

\* Where the handler goes when next.ServeHTTP is left: on a return the status
\* is recorded and then the deferred span.End() runs; a panic unwinds straight
\* to the deferred span.End().
AfterServeHTTPNoDefer(outcome) == IF outcome = "returned" THEN "status" ELSE "done"
AfterServeHTTP(outcome) == IF outcome = "returned" THEN "status" ELSE "deferred"

\* The frame of a call through the middleware or an interceptor.  writes and
\* lastCode: the WriteHeader calls the handler made.  reported: what the call
\* passed to span.SetAttributes and span.SetStatus.  events: what it did, in order.
\* before: the outgoing metadata the caller of the gRPC client interceptor had;
\* resp: the handler's response; ret: what the interceptor returned.
NoReturn == [resp |-> "", err |-> ""]
NotReported == [code |-> 0, status |-> "Unset", grpcCode |-> ""]
IdleCall == [op |-> "idle", pc |-> "idle", carrier |-> EmptyMap, ctx |-> Background,
             span |-> 0, handlerCtx |-> Background, statusCode |-> 0,
             writes |-> 0, lastCode |-> 0, outcome |-> "", events |-> <<>>,
             reported |-> NotReported,
             before |-> NilMD, resp |-> "", ret |-> NoReturn]

CallFree == call.pc \in {"idle", "done"}

\* line 23: ctx := propagation.ExtractHTTP(r.Context(), r.Header)
HTTPServe ==
    /\ CallFree
    /\ Len(spans) < MaxSpans
    /\ \E header \in RequestHeaders :
          call' = [IdleCall EXCEPT !.op = "http", !.pc = "start",
                                   !.ctx = ExtractHTTP(Background, header),
                                   !.events = <<"extract">>]
    /\ UNCHANGED <<tracingRev, globalTP, globalProp, defaultTracer, providers, conns,
                   resources, init, initRet, spans, tracerRet, prop, logst, conf, metrics>>

\* lines 25-45: tracer := otel.Tracer(tracerName); ctx, span := tracer.Start(ctx, ..);
\* defer span.End()
HTTPStart ==
    /\ call.op = "http" /\ call.pc = "start"
    /\ LET id == Len(spans) + 1
           sp == TracerStart(OtelTracer(globalTP), call.ctx, id, "HTTPMiddleware",
                             providers)
       IN  /\ spans' = Append(spans, sp)
           /\ call' = [call EXCEPT !.pc = "invoke", !.span = id,
                                   !.ctx = Ctx(id, sp.sc),
                                   !.events = Append(@, "start")]
    /\ UNCHANGED <<tracingRev, globalTP, globalProp, defaultTracer, providers, conns,
                   resources, init, initRet, tracerRet, prop, logst, conf, metrics>>

\* lines 47-50: r = r.WithContext(ctx); wrapped := &responseWriter{.., StatusOK};
\* next.ServeHTTP(wrapped, r) is entered
HTTPInvoke ==
    /\ call.op = "http" /\ call.pc = "invoke"
    /\ call' = [call EXCEPT !.pc = "handler", !.handlerCtx = call.ctx,
                            !.statusCode = StatusOK,
                            !.events = Append(@, "handler")]
    /\ UNCHANGED <<tracingRev, globalTP, globalProp, defaultTracer, providers, conns,
                   resources, init, initRet, spans, tracerRet, prop, logst, conf, metrics>>

\* responseWriter.WriteHeader(code), called by the wrapped handler
HandlerWriteHeader ==
    /\ call.op = "http" /\ call.pc = "handler"
    /\ call.writes < MaxWriteHeaderCalls
    /\ \E code \in StatusCodes :
          call' = [call EXCEPT !.statusCode = code, !.writes = @ + 1,
                               !.lastCode = code]
    /\ UNCHANGED <<tracingRev, globalTP, globalProp, defaultTracer, providers, conns,
                   resources, init, initRet, spans, tracerRet, prop, logst, conf, metrics>>

\* next.ServeHTTP returns
HandlerReturn ==
    /\ call.op = "http" /\ call.pc = "handler"
    /\ call' = [call EXCEPT !.pc = AfterServeHTTP("returned"), !.outcome = "returned",
                            !.events = Append(@, "return")]
    /\ UNCHANGED <<tracingRev, globalTP, globalProp, defaultTracer, providers, conns,
                   resources, init, initRet, spans, tracerRet, prop, logst, conf, metrics>>

\* next.ServeHTTP panics
HandlerPanic ==
    /\ call.op = "http" /\ call.pc = "handler"
    /\ call' = [call EXCEPT !.pc = AfterServeHTTP("panicked"), !.outcome = "panicked",
                            !.events = Append(@, "panic")]
    /\ UNCHANGED <<tracingRev, globalTP, globalProp, defaultTracer, providers, conns,
                   resources, init, initRet, spans, tracerRet, prop, logst, conf, metrics>>

\* lines 52-55: span.SetAttributes(http.status_code); SetStatus(Error) from 400 on
HTTPRecordStatus ==
    /\ call.op = "http" /\ call.pc = "status"
    /\ LET code == call.statusCode
           isErr == StatusIsError(code)
           sp1 == SpanSetAttribute(spans[call.span], "http.status_code", code)
           sp2 == IF isErr THEN SpanSetStatus(sp1, "Error") ELSE sp1
       IN  /\ spans' = [spans EXCEPT ![call.span] = sp2]
           /\ call' = [call EXCEPT
                         !.pc = "deferred",
                         !.reported = [@ EXCEPT
                                         !.code = code,
                                         !.status = IF isErr THEN "Error" ELSE "Unset"],
                         !.events = Append(@, "status")]
    /\ UNCHANGED <<tracingRev, globalTP, globalProp, defaultTracer, providers, conns,
                   resources, init, initRet, tracerRet, prop, logst, conf, metrics>>

\* line 45, run when the handler function is left: span.End()
HTTPEnd ==
    /\ call.op = "http" /\ call.pc = "deferred"
    /\ spans' = [spans EXCEPT ![call.span] = SpanEnd(@)]
    /\ call' = [call EXCEPT !.pc = "done", !.events = Append(@, "end")]
    /\ UNCHANGED <<tracingRev, globalTP, globalProp, defaultTracer, providers, conns,
                   resources, init, initRet, tracerRet, prop, logst, conf, metrics>>

-----------------------------------------------------------------------------
(* StartSpan, StartKafkaConsumerSpan, StartKafkaProducerSpan *)

\* Contexts a caller may pass: none, one with an extracted remote parent, or
\* the context of a span started earlier.
CallerCtxs == {Background, Ctx(0, RemoteSC)}
                  \cup {Ctx(i, spans[i].sc) : i \in 1..Len(spans)}

\* tracer := otel.Tracer(tracerName); return tracer.Start(ctx, name, ..)
StartWithGlobalTracer(op, ctx) ==
    /\ Len(spans) < MaxSpans
    /\ spans' = Append(spans,
           TracerStart(OtelTracer(globalTP), ctx, Len(spans) + 1, op, providers))
    /\ UNCHANGED <<tracingRev, globalTP, globalProp, defaultTracer, providers, conns,
                   resources, init, initRet, call, tracerRet, prop, logst, conf, metrics>>

StartSpan == \E ctx \in CallerCtxs : StartWithGlobalTracer("StartSpan", ctx)

StartKafkaConsumerSpan ==
    \E ctx \in CallerCtxs : StartWithGlobalTracer("StartKafkaConsumerSpan", ctx)

StartKafkaProducerSpan ==
    \E ctx \in CallerCtxs : StartWithGlobalTracer("StartKafkaProducerSpan", ctx)

-----------------------------------------------------------------------------
(* tracing.UnaryServerInterceptor and tracing.UnaryClientInterceptor *)

\* Errors a handler or invoker may return ("": nil) and what status.FromError
\* makes of them: a status error keeps its code, any other error is Unknown.
GrpcErrors == {"", "NotFound", "plain"}
\* Responses a handler may return ("": nil); an invoker returns an error only.
GrpcResponses == {"", "reply"}

\* return resp, err
InterceptorReturnNoRespOnError(resp, err) ==
    [resp |-> IF err = "" THEN resp ELSE "", err |-> err]
InterceptorReturn(resp, err) == [resp |-> resp, err |-> err]

\* The context whose trace context the client interceptor injects: the one
\* tracer.Start returned, which holds the new span.
ClientInjectParentCtx(parent, ctx) == parent
ClientInjectCtx(parent, ctx) == ctx
StatusCodeOf(err) == IF err = "NotFound" THEN "NotFound" ELSE "Unknown"

\* Incoming metadata of a server call; outgoing metadata in a client's context
\* (NilMD: the context holds none).
ServerMDs == { NilMD, MD(MapPut(EmptyMap, "traceparent", <<StaleText>>)),
               MD(MapPut(EmptyMap, "traceparent",
                         <<FormatTraceparent(UnsampledParentSC)>>)) }
ClientMDs == { NilMD, MD(MapPut(EmptyMap, "traceparent", <<StaleText>>)),
               MD(MapPut(EmptyMap, "x-request-id", <<RequestIDText>>)) }

\* server, lines 27-44: ExtractGrpc from the incoming metadata, otel.Tracer,
\* tracer.Start, defer span.End(), then handler(ctx, req) is entered
GrpcServerBegin ==
    /\ CallFree
    /\ Len(spans) < MaxSpans
    /\ \E md \in ServerMDs :
          LET ctx == ExtractGrpc(Background, md)
              id == Len(spans) + 1
              sp == TracerStart(OtelTracer(globalTP), ctx, id, "GrpcServerInterceptor",
                                providers)
          IN  /\ spans' = Append(spans, sp)
              /\ call' = [IdleCall EXCEPT !.op = "grpcServer", !.pc = "handler",
                                          !.span = id,
                                          !.ctx = Ctx(id, sp.sc),
                                          !.handlerCtx = Ctx(id, sp.sc),
                                          !.events = <<"extract", "start", "handler">>]
    /\ UNCHANGED <<tracingRev, globalTP, globalProp, defaultTracer, providers, conns,
                   resources, init, initRet, tracerRet, prop, logst, conf, metrics>>

\* client, lines 65-82: otel.Tracer, tracer.Start, defer span.End(), the outgoing
\* metadata (or new metadata) gets the trace context of ctx injected, then
\* invoker(ctx, ..) is entered
GrpcClientBegin ==
    /\ CallFree
    /\ Len(spans) < MaxSpans
    /\ \E parent \in CallerCtxs, md \in ClientMDs :
          LET id == Len(spans) + 1
              sp == TracerStart(OtelTracer(globalTP), parent, id,
                                "GrpcClientInterceptor", providers)
              ctx == Ctx(id, sp.sc)
              out == InjectGrpc(ClientInjectCtx(parent, ctx),
                                IF md.nil THEN MD(EmptyMap) ELSE md)
          IN  /\ spans' = Append(spans, sp)
              /\ call' = [IdleCall EXCEPT !.op = "grpcClient", !.pc = "handler",
                                          !.carrier = out, !.before = md,
                                          !.span = id,
                                          !.ctx = ctx, !.handlerCtx = ctx,
                                          !.events = <<"start", "inject", "handler">>]
    /\ UNCHANGED <<tracingRev, globalTP, globalProp, defaultTracer, providers, conns,
                   resources, init, initRet, tracerRet, prop, logst, conf, metrics>>

\* the handler or invoker returns err; on a non-nil error the span gets
\* SetStatus(Error) and rpc.grpc.status_code; the deferred span.End() runs and
\* the interceptor returns err
GrpcReturn ==
    /\ call.op \in {"grpcServer", "grpcClient"} /\ call.pc = "handler"
    /\ \E err \in GrpcErrors, resp \in GrpcResponses :
          LET sp0 == spans[call.span]
              sp1 == IF err = "" THEN sp0 ELSE SpanSetStatus(sp0, "Error")
              sp2 == IF err = "" THEN sp1
                     ELSE SpanSetAttribute(sp1, "rpc.grpc.status_code", StatusCodeOf(err))
          IN  /\ (call.op = "grpcClient") => resp = ""
              /\ spans' = [spans EXCEPT ![call.span] = SpanEnd(sp2)]
              /\ call' = [call EXCEPT
                            !.pc = "done", !.outcome = err, !.resp = resp,
                            !.ret = InterceptorReturn(resp, err),
                            !.reported = IF err = "" THEN @
                                         ELSE [@ EXCEPT !.status = "Error",
                                                        !.grpcCode = StatusCodeOf(err)],
                            !.events = @ \o (IF err = "" THEN <<"return", "end">>
                                             ELSE <<"return", "status", "end">>)]
    /\ UNCHANGED <<tracingRev, globalTP, globalProp, defaultTracer, providers, conns,
                   resources, init, initRet, tracerRet, prop, logst, conf, metrics>>

-----------------------------------------------------------------------------
(* logging: FromContext, Logger *)

\* Level, and the slog.Level that New gives the handler for it.
Levels == {"LevelDebug", "LevelInfo", "LevelError"}
SlogLevel(level) ==
    CASE level = "LevelDebug" -> -4
      [] level = "LevelInfo" -> 0
      [] level = "LevelError" -> 8
      [] OTHER -> 0

\* ParseLevel: Info for unknown values.
ParseLevelAnyCase(s) ==
    CASE s \in {"debug", "DEBUG", "Debug"} -> "LevelDebug"
      [] s \in {"info", "INFO"} -> "LevelInfo"
      [] s \in {"error", "ERROR"} -> "LevelError"
      [] OTHER -> "LevelInfo"
ParseLevel(s) ==
    CASE s \in {"debug", "DEBUG"} -> "LevelDebug"
      [] s \in {"info", "INFO"} -> "LevelInfo"
      [] s \in {"error", "ERROR"} -> "LevelError"
      [] OTHER -> "LevelInfo"

\* Values of LOG_LEVEL ("": unset or empty).
LogLevelTexts == {"", "debug", "DEBUG", "info", "INFO", "error", "ERROR", "Debug", "warn"}

\* TraceContext; the zero value has two empty strings.
TraceContext(traceID, spanID) == [TraceID |-> traceID, SpanID |-> spanID]
ZeroTraceContext == TraceContext(<<>>, <<>>)

\* FromContext: the IDs of the span in ctx in hex, or the zero TraceContext when
\* the span's context is not valid.
FromContextTraceIDOnly(ctx) ==
    IF ~IDIsValid(ctx.sc.tid) THEN ZeroTraceContext
    ELSE TraceContext(HexString(ctx.sc.tid, TraceIDHexLen),
                      HexString(ctx.sc.sid, SpanIDHexLen))
FromContext(ctx) ==
    IF ~SCIsValid(ctx.sc) THEN ZeroTraceContext
    ELSE TraceContext(HexString(ctx.sc.tid, TraceIDHexLen),
                      HexString(ctx.sc.sid, SpanIDHexLen))

\* WithTrace: the attributes of the logger it returns; none stands for the
\* inner logger itself.
WithTrace(ctx) ==
    LET tc == FromContext(ctx)
    IN  IF tc.TraceID = <<>> /\ tc.SpanID = <<>> THEN <<>>
        ELSE (IF tc.TraceID # <<>> THEN << <<"trace_id", tc.TraceID>> >> ELSE <<>>)
                 \o (IF tc.SpanID # <<>> THEN << <<"span_id", tc.SpanID>> >> ELSE <<>>)

\* Contexts and key/value arguments a caller logs with.
LogCtxs == {Ctx(0, sc) : sc \in SampleSCs}
LogArgs == { <<>>, << <<"user_id", <<"4", "2">> >> >>,
             << <<"user_id", <<"4", "2">> >>, <<"attempt", <<"1">> >> >> }

NoLine == [level |-> "", with |-> <<>>, attrs |-> <<>>]
\* from: how the logger was built ("env": LoggerFromEnv, with text the value of
\* LOG_LEVEL; "New": New(level)); handlerLevel: the slog level of its handler.
LogIdle == [pc |-> "idle", from |-> "", text |-> "", level |-> "", handlerLevel |-> 0,
            method |-> "", ctx |-> Background, emitted |-> FALSE, line |-> NoLine]

\* Level values a caller may pass to New: the three constants and values
\* outside them.
LevelValues == Levels \cup {"Level(-1)", "Level(3)"}

\* New(level)
LoggerNew ==
    /\ \E level \in LevelValues :
          logst' = [LogIdle EXCEPT !.pc = "ready", !.from = "New", !.level = level,
                                   !.handlerLevel = SlogLevel(level)]
    /\ UNCHANGED <<traceVars, prop, conf, metrics>>

\* LoggerFromEnv: New(ParseLevel(os.Getenv("LOG_LEVEL")))
LoggerFromEnv ==
    /\ \E text \in LogLevelTexts :
          logst' = [LogIdle EXCEPT !.pc = "ready", !.from = "env", !.text = text,
                                   !.level = ParseLevel(text),
                                   !.handlerLevel = SlogLevel(ParseLevel(text))]
    /\ UNCHANGED <<traceVars, prop, conf, metrics>>

\* l.WithTrace(ctx).<method>(msg, args...): the handler drops a record below
\* its level; an emitted line has the attributes of the logger followed by args.
LoggerLog(method, level) ==
    /\ logst.pc # "idle"
    /\ \E ctx \in LogCtxs, args \in LogArgs :
          LET with == WithTrace(ctx)
              enabled == SlogLevel(level) >= SlogLevel(logst.level)
          IN  logst' = [logst EXCEPT
                          !.pc = "logged", !.method = method, !.ctx = ctx,
                          !.emitted = enabled,
                          !.line = IF enabled
                                   THEN [level |-> level, with |-> with,
                                         attrs |-> with \o args]
                                   ELSE NoLine]
    /\ UNCHANGED <<traceVars, prop, conf, metrics>>

LoggerInfo == LoggerLog("Info", "LevelInfo")
LoggerError == LoggerLog("Error", "LevelError")
LoggerDebug == LoggerLog("Debug", "LevelDebug")

-----------------------------------------------------------------------------
(* config.Load *)

EnvVars == {"OTEL_SERVICE_NAME", "OTEL_SERVICE_VERSION", "OTEL_ENVIRONMENT",
            "OTEL_EXPORTER_OTLP_ENDPOINT"}

\* A variable of the environment: unset, or set to a value (possibly empty).
Unset == [set |-> FALSE, value |-> ""]
SetTo(v) == [set |-> TRUE, value |-> v]
EnvValues == {Unset, SetTo(""), SetTo("v1")}

\* os.Getenv: the value, empty when the variable is unset.
Getenv(env, name) == IF env[name].set THEN env[name].value ELSE ""

Config(serviceName, serviceVersion, environment, otelEndpoint) ==
    [ServiceName |-> serviceName, ServiceVersion |-> serviceVersion,
     Environment |-> environment, OtelEndpoint |-> otelEndpoint]

LoadNoEnvironmentDefault(env) ==
    LET serviceName == Getenv(env, "OTEL_SERVICE_NAME")
        serviceVersion == Getenv(env, "OTEL_SERVICE_VERSION")
        environment == Getenv(env, "OTEL_ENVIRONMENT")
        endpoint == Getenv(env, "OTEL_EXPORTER_OTLP_ENDPOINT")
    IN  Config(IF serviceName = "" THEN "unknown-service" ELSE serviceName,
               serviceVersion,
               environment,
               IF endpoint = "" THEN "localhost:4317" ELSE endpoint)
Load(env) ==
    LET serviceName == Getenv(env, "OTEL_SERVICE_NAME")
        serviceVersion == Getenv(env, "OTEL_SERVICE_VERSION")
        environment == Getenv(env, "OTEL_ENVIRONMENT")
        endpoint == Getenv(env, "OTEL_EXPORTER_OTLP_ENDPOINT")
    IN  Config(IF serviceName = "" THEN "unknown-service" ELSE serviceName,
               serviceVersion,
               IF environment = "" THEN "development" ELSE environment,
               IF endpoint = "" THEN "localhost:4317" ELSE endpoint)

NoEnv == [name \in EnvVars |-> Unset]
ConfIdle == [pc |-> "idle", env |-> NoEnv, cfg |-> Config("", "", "", "")]
ConfInit == conf \in {[ConfIdle EXCEPT !.pc = "env", !.env = e] : e \in [EnvVars -> EnvValues]}

\* cfg := config.Load()
LoadCall ==
    /\ conf.pc = "env"
    /\ conf' = [conf EXCEPT !.pc = "loaded", !.cfg = Load(conf.env)]
    /\ UNCHANGED <<traceVars, prop, logst, metrics>>

-----------------------------------------------------------------------------
(* observability.HandleError, and the caller ending a span it started *)

\* error values: nil, or an error with its message (which may be empty).
NilErr == [nil |-> TRUE, msg |-> ""]
Err(msg) == [nil |-> FALSE, msg |-> msg]
Errors == {NilErr, Err(""), Err("boom")}

\* lines 107-110 on the span of the context: RecordError, SetStatus(Error,
\* err.Error()), SetAttributes("error", err.Error())
HandleErrorSpanNoRecord(sp, err) ==
    SpanSetAttribute(SpanSetStatusDesc(sp, "Error", err.msg), "error", err.msg)
HandleErrorSpan(sp, err) ==
    SpanSetAttribute(SpanSetStatusDesc(SpanRecordError(sp, err.msg), "Error", err.msg),
                     "error", err.msg)

\* Values of LOG_LEVEL under which HandleError is called: one for each level.
ErrorLogLevelTexts == {"", "debug", "ERROR"}

\* The error lines logged so far (logst keeps the latest line only).
ErrorLines == IF logst.pc = "logged" THEN 1 ELSE 0

\* HandleError(ctx, err) is called
HandleErrorCall ==
    /\ CallFree
    /\ ErrorLines < MaxErrorLines
    /\ \E ctx \in CallerCtxs, err \in Errors :
          /\ (ctx.span # 0) => Len(spans[ctx.span].events) < MaxSpanEvents
          /\ call' = [IdleCall EXCEPT !.op = "HandleError", !.pc = "start",
                                      !.ctx = ctx, !.span = ctx.span,
                                      !.outcome = err]
    /\ UNCHANGED <<tracingRev, globalTP, globalProp, defaultTracer, providers, conns,
                   resources, init, initRet, spans, tracerRet, prop, logst, conf, metrics>>

\* lines 104-113: return on a nil error; otherwise the span of ctx (a span
\* that records nothing when ctx holds none) gets the error, and
\* LoggerFromEnv().Error(ctx, "error observed", "error", err) logs it
HandleErrorRun ==
    /\ call.op = "HandleError" /\ call.pc = "start"
    /\ IF call.outcome.nil
       THEN /\ call' = [call EXCEPT !.pc = "done", !.events = <<"return">>]
            /\ UNCHANGED <<spans, logst>>
       ELSE /\ spans' = IF call.span = 0 THEN spans
                        ELSE [spans EXCEPT ![call.span] = HandleErrorSpan(@, call.outcome)]
            /\ \E text \in ErrorLogLevelTexts :
                  LET with == WithTrace(call.ctx)
                      level == ParseLevel(text)
                      enabled == SlogLevel("LevelError") >= SlogLevel(level)
                  IN  logst' = [LogIdle EXCEPT
                                  !.pc = "logged", !.from = "env", !.text = text,
                                  !.level = level, !.handlerLevel = SlogLevel(level),
                                  !.method = "Error",
                                  !.ctx = call.ctx, !.emitted = enabled,
                                  !.line = IF enabled
                                           THEN [level |-> "LevelError", with |-> with,
                                                 attrs |-> with \o
                                                     << <<"error", call.outcome.msg>> >>]
                                           ELSE NoLine]
            /\ call' = [call EXCEPT
                          !.pc = "done",
                          !.reported = [@ EXCEPT !.status = "Error"],
                          !.events = <<"RecordError", "SetStatus", "SetAttributes",
                                       "log", "return">>]
    /\ UNCHANGED <<tracingRev, globalTP, globalProp, defaultTracer, providers, conns,
                   resources, init, initRet, tracerRet, prop, conf, metrics>>

\* the caller of StartSpan calls span.End() when done
CallerEndSpan ==
    /\ \E i \in 1..Len(spans) :
          /\ spans[i].op = "StartSpan"
          /\ spans[i].ended = 0
          /\ spans' = [spans EXCEPT ![i] = SpanEnd(@)]
    /\ UNCHANGED <<tracingRev, globalTP, globalProp, defaultTracer, providers, conns,
                   resources, init, initRet, call, tracerRet, prop, logst, conf, metrics>>

-----------------------------------------------------------------------------
(* metrics: SetMeter, getMeter, NewCounter *)

\* metric.Meter values: nil, the meters a service may pass to SetMeter, and the
\* meter of noop.NewMeterProvider().
NilMeter == "nil"
Meters == {"meterA", "meterB"}
NoopMeter == "noop"

\* getMeter on the value read from meter under mu.RLock
GetMeterNoFallback(m) == m
GetMeter(m) == IF m # NilMeter THEN m ELSE NoopMeter

\* m.Int64Counter(name, ..): the noop meter always gives a counter; a meter of
\* an SDK gives a counter or an error (an instrument it cannot create).
NilCounter == [nil |-> TRUE, on |-> NilMeter]
CounterOn(m) == [nil |-> FALSE, on |-> m]
Int64Counter(m) ==
    {[c |-> CounterOn(m), err |-> ""]}
        \cup (IF m = NoopMeter THEN {} ELSE {[c |-> NilCounter, err |-> "instrument"]})

\* NewCounter's return values for what Int64Counter gave
NewCounterResult(r) ==
    IF r.err # "" THEN [counter |-> NilCounter, err |-> r.err]
    ELSE [counter |-> r.c, err |-> ""]

\* The frame of a NewCounter call: m is what getMeter returned, at the number
\* of SetMeter calls made before getMeter read meter.
IdleCounterCall == [pc |-> "idle", m |-> NilMeter, at |-> 0,
                    counter |-> NilCounter, err |-> ""]
MetricsIdle == [meter |-> NilMeter, passed |-> <<>>, call |-> IdleCounterCall]

\* SetMeter(m): meter = m under mu.Lock
SetMeter ==
    /\ Len(metrics.passed) < MaxSetMeters
    /\ \E m \in {NilMeter} \cup Meters :
          metrics' = [metrics EXCEPT !.meter = m, !.passed = Append(@, m)]
    /\ UNCHANGED <<traceVars, prop, logst, conf>>

\* NewCounter(name, description) is called (directly or through the facade)
NewCounterCall ==
    /\ metrics.call.pc \in {"idle", "done"}
    /\ metrics' = [metrics EXCEPT !.call = [IdleCounterCall EXCEPT !.pc = "getMeter"]]
    /\ UNCHANGED <<traceVars, prop, logst, conf>>

\* getMeter(): read meter under mu.RLock, fall back to the noop meter
NewCounterGetMeter ==
    /\ metrics.call.pc = "getMeter"
    /\ metrics' = [metrics EXCEPT !.call.pc = "create",
                                  !.call.m = GetMeter(metrics.meter),
                                  !.call.at = Len(metrics.passed)]
    /\ UNCHANGED <<traceVars, prop, logst, conf>>

\* .Int64Counter(name, ..) on that meter, and the return
NewCounterCreate ==
    /\ metrics.call.pc = "create"
    /\ \E r \in Int64Counter(metrics.call.m) :
          LET ret == NewCounterResult(r)
          IN  metrics' = [metrics EXCEPT !.call.pc = "done",
                                        !.call.counter = ret.counter,
                                        !.call.err = ret.err]
    /\ UNCHANGED <<traceVars, prop, logst, conf>>

-----------------------------------------------------------------------------
(* Specifications *)

TraceIdle ==
    /\ globalTP = 0
    /\ globalProp = FALSE
    /\ defaultTracer = 0
    /\ providers = <<>>
    /\ conns = <<>>
    /\ resources = <<>>
    /\ init = IdleInit
    /\ initRet = NoInitRet
    /\ spans = <<>>
    /\ call = IdleCall
    /\ tracerRet = NoTracerRet

Init ==
    /\ tracingRev \in {"legacy", "current"}
    /\ TraceIdle
    /\ prop = PropIdle
    /\ logst = LogIdle
    /\ conf = ConfIdle
    /\ metrics = MetricsIdle

InitSteps ==
    \/ NewResource
    \/ InitCall \/ InitDial \/ InitExporter \/ InitResource \/ InitProvider
    \/ InitSetTracerProvider \/ InitSetPropagator \/ InitStoreTracer \/ InitReturn

\* Initialisation beside the calls that obtain a tracer and start a span.
Next ==
    \/ InitSteps
    \/ TracerCall
    \/ StartSpan \/ StartKafkaConsumerSpan \/ StartKafkaProducerSpan

Spec == Init /\ [][Next]_vars

\* Initialisation beside requests served through the HTTP middleware.
NextHTTP ==
    \/ InitSteps
    \/ HTTPServe \/ HTTPStart \/ HTTPInvoke
    \/ HandlerWriteHeader \/ HandlerReturn \/ HandlerPanic
    \/ HTTPRecordStatus \/ HTTPEnd

SpecHTTP == Init /\ [][NextHTTP]_vars

\* Initialisation beside calls through the gRPC interceptors.
NextGrpc ==
    \/ InitSteps
    \/ GrpcServerBegin \/ GrpcClientBegin \/ GrpcReturn

SpecGrpc == Init /\ [][NextGrpc]_vars

\* Propagation round trips on their own.
InitProp ==
    /\ tracingRev = "current"
    /\ TraceIdle
    /\ PropInit
    /\ logst = LogIdle
    /\ conf = ConfIdle
    /\ metrics = MetricsIdle

SpecProp == InitProp /\ [][PropNext]_vars

\* The logger on its own.
NextLog == LoggerFromEnv \/ LoggerNew \/ LoggerInfo \/ LoggerError \/ LoggerDebug

SpecLog == Init /\ [][NextLog]_vars

\* config.Load on every environment.
InitConf ==
    /\ tracingRev = "current"
    /\ TraceIdle
    /\ prop = PropIdle
    /\ logst = LogIdle
    /\ ConfInit
    /\ metrics = MetricsIdle

SpecConf == InitConf /\ [][LoadCall]_vars

\* Initialisation beside StartSpan, the caller's span.End() and HandleError.
NextSpan ==
    \/ InitSteps
    \/ StartSpan \/ CallerEndSpan
    \/ HandleErrorCall \/ HandleErrorRun

SpecSpan == Init /\ [][NextSpan]_vars

\* SetMeter calls beside a NewCounter call.
NextMetrics == SetMeter \/ NewCounterCall \/ NewCounterGetMeter \/ NewCounterCreate

SpecMetrics == Init /\ [][NextMetrics]_vars

\* Initialisation, the shutdown functions it returns, and spans started beside
\* them.
NextShutdown == InitSteps \/ ShutdownCall \/ StartSpan

SpecShutdown == Init /\ [][NextShutdown]_vars

-----------------------------------------------------------------------------
(* Properties *)

\* C1: the global otel.Tracer() accessor is never used before the tracer
\* provider is set: no span is started on a tracer that the global accessor
\* handed out while no Init had completed SetTracerProvider (such a tracer is
\* the delegating one), and Tracer() makes no global call.
C1_GlobalTracerNeverUsedBeforeProviderSet ==
    /\ \A i \in 1..Len(spans) : spans[i].tracer.kind # "delegating"
    /\ tracerRet.global = {}

\* C2: exactly one Resource is created per process: every Resource constructed
\* is one returned by NewResource (none comes from resource.Default,
\* resource.NewWithAttributes or resource.Merge inside Init), and every tracer
\* provider created by Init carries a Resource returned by NewResource.
C2_OnlyNewResourceBuildsResources ==
    /\ \A i \in 1..Len(resources) : resources[i].origin = "NewResource"
    /\ \A p \in 1..Len(providers) :
          /\ providers[p].res \in 1..Len(resources)
          /\ resources[providers[p].res].origin = "NewResource"

\* C3: Init creates the provider with the resource, registers it with
\* SetTracerProvider and only then stores the default tracer: whenever the
\* stored default tracer is non-nil, the global tracer provider is set and the
\* default tracer is of a provider that Init created; and an Init call that is
\* about to register its provider has created it with its resource, one that
\* is about to store the tracer has registered its provider.
C3_InitOrder ==
    /\ defaultTracer # 0 =>
          /\ globalTP # 0
          /\ defaultTracer \in 1..Len(providers)
          /\ globalTP >= defaultTracer
    /\ init.pc = "setTP" =>
          /\ init.tp \in 1..Len(providers)
          /\ providers[init.tp].res = init.res
          /\ defaultTracer # init.tp
    /\ init.pc = "storeTracer" => globalTP = init.tp

C3_Witness ==
    /\ defaultTracer # 0
    /\ init.pc = "return"
    /\ globalTP = defaultTracer

\* C4: Tracer() returns a noop tracer as long as no Init call has succeeded,
\* and the tracer of the provider that the latest successful Init created once
\* one has; in neither case does it call the otel global API.
C4_TracerResult ==
    tracerRet.called =>
        /\ tracerRet.okTP = 0 => tracerRet.tracer = NoopTracer
        /\ tracerRet.okTP # 0 => tracerRet.tracer = [kind |-> "sdk", tp |-> tracerRet.okTP]
        /\ tracerRet.global = {}

C4_Witness ==
    /\ tracerRet.called
    /\ tracerRet.okTP # 0
    /\ tracerRet.tracer.kind = "sdk"
    /\ initRet.calls > 0

\* C5: an Init call that fails returns a nil shutdown function and a non-nil
\* error and leaves the global tracer provider, the global propagator and the
\* stored default tracer as they were when it was called; when it failed in
\* creating the exporter, the connection it dialled is closed.
C5_FailedInitLeavesStateUnchanged ==
    (init.pc = "idle" /\ initRet.calls > 0 /\ initRet.err # <<>>) =>
        /\ initRet.shutdown = 0
        /\ globalTP = initRet.entry.tp
        /\ globalProp = initRet.entry.prop
        /\ defaultTracer = initRet.entry.tracer
        /\ initRet.err[Len(initRet.err)] = "create OTLP gRPC connection" =>
              initRet.conn = 0
        /\ initRet.err[Len(initRet.err)] = "create OTLP trace exporter" =>
              /\ initRet.conn \in 1..Len(conns)
              /\ conns[initRet.conn] = "closed"

C5_Witness ==
    /\ init.pc = "idle"
    /\ initRet.calls = 2
    /\ initRet.err # <<>>
    /\ initRet.err[Len(initRet.err)] = "create OTLP trace exporter"
    /\ initRet.entry.tp # 0
    /\ globalTP = initRet.entry.tp
    /\ conns[initRet.conn] = "closed"

\* C6: a request served through the HTTP middleware gets exactly one span: it
\* is started after the trace context is extracted and before the wrapped
\* handler is invoked, the handler's request context holds that span, and the
\* span is ended exactly once, after the handler has returned or panicked.
C6_OneSpanPerRequest ==
    call.op = "http" =>
        LET ev == call.events
            At(e) == {i \in 1..Len(ev) : ev[i] = e}
            Before(a, b) == \A j \in At(b) : \E i \in At(a) : i < j
        IN  /\ Cardinality(At("start")) <= 1
            /\ Cardinality(At("end")) <= 1
            /\ Before("extract", "start")
            /\ Before("start", "handler")
            /\ At("handler") # {} =>
                  /\ call.span \in 1..Len(spans)
                  /\ call.handlerCtx = Ctx(call.span, spans[call.span].sc)
            /\ \A j \in At("end") : \E i \in At("return") \cup At("panic") : i < j
            /\ (call.span # 0 /\ call.pc # "done") => spans[call.span].ended = 0
            /\ call.pc = "done" =>
                  /\ Cardinality(At("start")) = 1
                  /\ Cardinality(At("end")) = 1
                  /\ spans[call.span].ended = 1

C6_Witness ==
    /\ call.op = "http"
    /\ call.pc = "done"
    /\ call.outcome = "panicked"
    /\ spans[call.span].ended = 1

\* C7: when the wrapped handler returns, the middleware reports as
\* http.status_code the code the handler passed to WriteHeader (the latest one),
\* or 200 when WriteHeader was never called, and sets the span status to Error
\* exactly when that code is 400 or more; a recording span holds what was
\* reported.
C7_StatusFromResponse ==
    (call.op = "http" /\ call.outcome = "returned" /\ call.pc \in {"deferred", "done"}) =>
        LET code == IF call.writes = 0 THEN 200 ELSE call.lastCode
            sp == spans[call.span]
        IN  /\ call.reported.code = code
            /\ call.reported.status = "Error" <=> code >= 400
            /\ sp.recording =>
                  /\ MapHas(sp.attrs, "http.status_code")
                  /\ sp.attrs["http.status_code"] = code
                  /\ sp.status = "Error" <=> code >= 400

C7_Witness ==
    /\ call.op = "http"
    /\ call.outcome = "returned"
    /\ call.pc = "done"
    /\ call.writes > 0
    /\ call.lastCode = 400
    /\ spans[call.span].recording
    /\ spans[call.span].status = "Error"

HeldBefore ==
    CASE prop.transport = "http" -> ExtractHTTP(Background, prop.before).sc
      [] prop.transport = "grpc" -> ExtractGrpc(Background, prop.before).sc
      [] OTHER -> NoSC

C9_TraceAttributes ==
    (logst.pc = "logged" /\ logst.emitted) =>
        LET with == logst.line.with
            Has(k) == \E i \in 1..Len(with) : with[i][1] = k
            Val(k) == with[CHOOSE i \in 1..Len(with) : with[i][1] = k][2]
            sc == logst.ctx.sc
        IN  /\ SCIsValid(sc) =>
                  /\ Len(with) = 2
                  /\ Has("trace_id") /\ Has("span_id")
                  /\ Len(Val("trace_id")) = TraceIDHexLen
                  /\ IsHexText(Val("trace_id"))
                  /\ HexDecode(Val("trace_id")) = sc.tid
                  /\ Len(Val("span_id")) = SpanIDHexLen
                  /\ IsHexText(Val("span_id"))
                  /\ HexDecode(Val("span_id")) = sc.sid
            /\ ~SCIsValid(sc) =>
                  /\ FromContext(logst.ctx) = ZeroTraceContext
                  /\ with = <<>>
            /\ Has("trace_id") <=> Has("span_id")
            /\ SubSeq(logst.line.attrs, 1, Len(with)) = with

C9_Witness ==
    /\ logst.pc = "logged"
    /\ logst.emitted
    /\ logst.method = "Debug"
    /\ logst.ctx.sc = UnsampledSC
    /\ Len(logst.line.with) = 2

\* C10: config.Load gives each field the value of its own variable, or, when
\* the variable is unset or empty, the default: "unknown-service",
\* "development", "localhost:4317", and for ServiceVersion the empty string.
C10_LoadDefaults ==
    conf.pc = "loaded" =>
        LET Blank(name) == ~conf.env[name].set \/ conf.env[name].value = ""
            Field(name, default) ==
                IF Blank(name) THEN default ELSE conf.env[name].value
        IN  /\ conf.cfg.ServiceName = Field("OTEL_SERVICE_NAME", "unknown-service")
            /\ conf.cfg.ServiceVersion = Field("OTEL_SERVICE_VERSION", "")
            /\ conf.cfg.Environment = Field("OTEL_ENVIRONMENT", "development")
            /\ conf.cfg.OtelEndpoint =
                  Field("OTEL_EXPORTER_OTLP_ENDPOINT", "localhost:4317")

C10_Witness ==
    /\ conf.pc = "loaded"
    /\ ~conf.env["OTEL_ENVIRONMENT"].set
    /\ conf.env["OTEL_SERVICE_NAME"] = SetTo("v1")
    /\ conf.env["OTEL_SERVICE_VERSION"] = SetTo("")
    /\ conf.cfg.Environment = "development"
    /\ conf.cfg.ServiceName = "v1"

\* C11 as stated: StartSpan called while no tracer is configured (no tracer
\* provider is registered, so no Init has succeeded) returns a noop span: its
\* span context is invalid and End, SetStatus and RecordError have no effect
\* on it.
C11_NoopSpanAsStated ==
    \A i \in 1..Len(spans) :
        (spans[i].op = "StartSpan" /\ spans[i].tracer.kind = "delegating") =>
            /\ ~SCIsValid(spans[i].sc)
            /\ ~spans[i].recording
            /\ spans[i].attrs = EmptyMap /\ spans[i].status = "Unset"
            /\ spans[i].desc = "" /\ spans[i].events = <<>>

\* C11: StartSpan called while no tracer provider is registered returns a
\* span that records nothing: End, SetStatus, SetAttributes and RecordError
\* have no effect on it, and its span context is the one of the span in the
\* context passed in (invalid only when that context holds none).
C11_NonRecordingSpan ==
    \A i \in 1..Len(spans) :
        (spans[i].op = "StartSpan" /\ spans[i].tracer.kind = "delegating") =>
            /\ spans[i].sc = spans[i].parent
            /\ ~spans[i].recording
            /\ spans[i].attrs = EmptyMap /\ spans[i].status = "Unset"
            /\ spans[i].desc = "" /\ spans[i].events = <<>>

C11_Witness ==
    /\ call.op = "HandleError" /\ call.pc = "done"
    /\ ~call.outcome.nil
    /\ call.span \in 1..Len(spans)
    /\ spans[call.span].op = "StartSpan"
    /\ spans[call.span].tracer.kind = "delegating"
    /\ spans[call.span].sc = RemoteSC
    /\ spans[call.span].ended = 1

\* C12: HandleError with a nil error changes no span and emits no log line.
\* With a non-nil error it records the error on the span of the context, sets
\* that span's status to Error with the error's message and its "error"
\* attribute to the message (a span that is not recording or has ended keeps
\* nothing of it), and emits one error-level line; it starts no span and ends
\* none, and touches no other span.
C12_HandleError ==
    [][(call.op = "HandleError" /\ call.pc = "start" /\ call'.pc = "done") =>
          LET err == call.outcome
              i == call.span
              live == i # 0 /\ spans[i].recording /\ spans[i].ended = 0
          IN  /\ Len(spans') = Len(spans)
              /\ \A j \in 1..Len(spans) :
                    /\ spans'[j].ended = spans[j].ended
                    /\ j # i => spans'[j] = spans[j]
              /\ err.nil => (spans' = spans /\ logst' = logst)
              /\ (~err.nil /\ live) =>
                    /\ spans'[i].events = Append(spans[i].events, <<"exception", err.msg>>)
                    /\ spans'[i].status = "Error"
                    /\ spans'[i].desc = err.msg
                    /\ MapHas(spans'[i].attrs, "error")
                    /\ spans'[i].attrs["error"] = err.msg
              /\ (~err.nil /\ ~live) => spans' = spans
              /\ ~err.nil =>
                    /\ logst'.pc = "logged"
                    /\ logst'.emitted
                    /\ logst'.method = "Error"
                    /\ logst'.line.level = "LevelError"
                    /\ logst'.ctx = call.ctx
                    /\ \E k \in 1..Len(logst'.line.attrs) :
                          logst'.line.attrs[k] = <<"error", err.msg>>
      ]_vars

C12_Witness ==
    /\ call.op = "HandleError" /\ call.pc = "done"
    /\ call.outcome = Err("boom")
    /\ call.span \in 1..Len(spans)
    /\ spans[call.span].recording
    /\ spans[call.span].status = "Error"
    /\ spans[call.span].events = << <<"exception", "boom">> >>
    /\ logst.emitted
    /\ logst.level = "LevelDebug"

\* C13: NewCounter creates its counter on the meter most recently passed to
\* SetMeter when getMeter read it, or on a noop meter when SetMeter had not been
\* called or was last called with nil, under every interleaving of SetMeter
\* with the NewCounter call; meter always is the value last passed to SetMeter;
\* when the meter fails to create the instrument NewCounter returns a nil
\* counter and the error, and otherwise a counter and a nil error.
C13_CounterOnLatestMeter ==
    LET passed == metrics.passed
        c == metrics.call
        latest == IF c.at = 0 THEN NilMeter ELSE passed[c.at]
    IN  /\ metrics.meter = (IF passed = <<>> THEN NilMeter ELSE passed[Len(passed)])
        /\ c.pc \in {"create", "done"} =>
              /\ c.at \in 0..Len(passed)
              /\ c.m = (IF latest = NilMeter THEN NoopMeter ELSE latest)
        /\ c.pc = "done" =>
              /\ c.err = "" => (~c.counter.nil /\ c.counter.on = c.m)
              /\ c.err # "" => (c.counter = NilCounter /\ c.m # NoopMeter)

C13_Witness ==
    /\ metrics.call.pc = "done"
    /\ metrics.call.err = ""
    /\ metrics.call.counter.on = "meterA"
    /\ metrics.meter = NilMeter
    /\ metrics.call.at < Len(metrics.passed)

\* C14: ParseLevel maps "debug" and "DEBUG" to LevelDebug, "info" and "INFO"
\* to LevelInfo, "error" and "ERROR" to LevelError and every other string to
\* LevelInfo; New gives the handler the debug, info or error level of its
\* argument and the info level for any other Level value; so a logger built
\* by LoggerFromEnv has one of the three levels.
C14_Levels ==
    logst.pc # "idle" =>
        /\ logst.from = "env" =>
              /\ logst.text \in {"debug", "DEBUG"} => logst.level = "LevelDebug"
              /\ logst.text \in {"info", "INFO"} => logst.level = "LevelInfo"
              /\ logst.text \in {"error", "ERROR"} => logst.level = "LevelError"
              /\ logst.text \notin {"debug", "DEBUG", "info", "INFO", "error", "ERROR"}
                    => logst.level = "LevelInfo"
              /\ logst.level \in Levels
        /\ logst.level = "LevelDebug" => logst.handlerLevel = -4
        /\ logst.level = "LevelError" => logst.handlerLevel = 8
        /\ logst.level \notin {"LevelDebug", "LevelError"} => logst.handlerLevel = 0
        /\ (logst.pc = "logged" /\ logst.method = "Debug") =>
              (logst.emitted <=> logst.level = "LevelDebug")

C14_Witness ==
    /\ logst.pc = "logged"
    /\ logst.from = "env"
    /\ logst.text = "Debug"
    /\ logst.level = "LevelInfo"
    /\ logst.method = "Debug"
    /\ ~logst.emitted

\* C15: the gRPC unary server and client interceptors start exactly one span
\* before the handler or invoker is called and end it exactly once after it
\* has returned, return the handler's response and error (the invoker's
\* error) unchanged, and set the span status to Error and the attribute
\* rpc.grpc.status_code exactly when that error is non-nil.
C15_InterceptorsTransparent ==
    call.op \in {"grpcServer", "grpcClient"} =>
        LET ev == call.events
            At(e) == {i \in 1..Len(ev) : ev[i] = e}
            Before(a, b) == \A j \in At(b) : \E i \in At(a) : i < j
            sp == spans[call.span]
            failed == call.outcome # ""
        IN  /\ Cardinality(At("start")) = 1
            /\ Cardinality(At("handler")) = 1
            /\ Before("start", "handler")
            /\ call.pc = "handler" => (sp.ended = 0 /\ At("end") = {})
            /\ call.pc = "done" =>
                  /\ Cardinality(At("end")) = 1
                  /\ Before("handler", "return") /\ Before("return", "end")
                  /\ sp.ended = 1
                  /\ call.ret = [resp |-> call.resp, err |-> call.outcome]
                  /\ call.reported.status = "Error" <=> failed
                  /\ call.reported.grpcCode # "" <=> failed
                  /\ failed => call.reported.grpcCode = StatusCodeOf(call.outcome)
                  /\ sp.recording =>
                        /\ sp.status = "Error" <=> failed
                        /\ MapHas(sp.attrs, "rpc.grpc.status_code") <=> failed

C15_Witness ==
    /\ call.op = "grpcServer" /\ call.pc = "done"
    /\ call.outcome = "plain" /\ call.resp = "reply"
    /\ call.ret = [resp |-> "reply", err |-> "plain"]
    /\ spans[call.span].recording
    /\ spans[call.span].status = "Error"
    /\ spans[call.span].attrs["rpc.grpc.status_code"] = "Unknown"

\* The span context that extraction finds in the metadata the invoker sees.
InvokerSees == ExtractGrpc(Background, call.carrier).sc

C17_InjectGrpcLeavesArgument ==
    (prop.transport = "grpc" /\ prop.pc \in {"injected", "extracted"}) =>
        /\ ~prop.carrier.nil
        /\ ~prop.before.nil => prop.callerMD = prop.before
        /\ prop.before.nil => prop.callerMD = NilMD

\* C18: once the shutdown function returned by a successful Init has been
\* called and has returned nil, the tracer provider that Init created is shut
\* down and the gRPC connection that Init opened is closed; and a provider is
\* shut down only through the shutdown function of its own Init.
C18_ShutdownReleasesAll ==
    \A p \in 1..Len(providers) :
        /\ providers[p].shutdownRet = "nil" =>
              /\ providers[p].shutdown
              /\ conns[providers[p].conn] = "closed"
        /\ providers[p].shutdown => providers[p].shutdownRet # "none"

=============================================================================
